---- MODULE Spec2Model ----
(***************************************************************************)
(* A model of halfshell's request pipeline: the option resolver of a       *)
(* route (route.go), the dimension engine and the crop calculator of the   *)
(* image processor, the crop -> scale -> blur -> grayscale pipeline of     *)
(* imageProcessor.ProcessImage, and the wands of concurrent ProcessImage   *)
(* calls.                                                                  *)
(*                                                                         *)
(* Numbers.  Image sizes are uint64 in the code and the geometry is        *)
(* computed in float64.  An aspect ratio is kept here as the pair          *)
(* (n, d) that float64(Width) / float64(Height) divides: d = 0 with n > 0  *)
(* is +Inf and 0/0 is NaN, as IEEE division gives them.  floor(x + 0.5)    *)
(* is computed exactly on the pair; where the float64 quotient is not      *)
(* representable and x + 0.5 is an exact integer, the float64 result is    *)
(* the exact one or one less (18x7 scaled to width 9 gives height 3, not   *)
(* 4), and both are kept.  A conversion of NaN, of +Inf or of a value out  *)
(* of range to an integer is implementation-dependent in Go: every         *)
(* outcome a build produces is kept.  The geometry operators therefore     *)
(* return the SET of results the code can compute.                         *)
(***************************************************************************)
EXTENDS Integers, Sequences, FiniteSets, TLC

\* ---------------------------------------------------------------- bounds

\* Largest width or height of an image or of a requested size (geometry).
MaxDim == 4
\* Largest configured default width or height (geometry).
MaxDefault == 2
\* Crop anchors are k / AnchorDen, k in 0..AnchorDen.
AnchorDen == 4
\* Largest width or height of an image or of a requested size (pipeline).
MaxPipeDim == 2
\* Largest blur fraction of a request (the documented range is 0 to 1).
MaxBlur == 1
\* Largest number of capture groups of a route pattern.
MaxGroups == 2
\* Number of ProcessImage calls that run concurrently.
MaxCalls == 2

\* ------------------------------------------------------- float64 helpers

\* Stands for the uint64 a build yields on converting +Inf, NaN or a value
\* beyond the type's range: 2^63 (amd64) or 2^64-1 (arm64); larger than every
\* size the bounds allow.
SatU64 == 1000000

RECURSIVE Gcd(_, _)
Gcd(a, b) == IF b = 0 THEN a ELSE Gcd(b, a % b)

RECURSIVE IsPow2(_)
IsPow2(k) == IF k <= 1 THEN k = 1 ELSE (k % 2 = 0 /\ IsPow2(k \div 2))

\* ImageDimensions{Width, Height}
Dim(w, h) == [Width |-> w, Height |-> h]

\* ImageDimensions.AspectRatio: float64(Width) / float64(Height).
AspectRatio(d) == [n |-> d.Width, d |-> d.Height]

IsNaN(ar) == ar.n = 0 /\ ar.d = 0
IsInf(ar) == ar.n > 0 /\ ar.d = 0

\* The float64 quotient n/d is not exact: the reduced denominator is no
\* power of two.
Inexact(ar) == ar.d > 0 /\ ~IsPow2(ar.d \div Gcd(ar.n, ar.d))

\* a > b and a < b on float64: false whenever either side is NaN.
FGt(a, b) ==
    /\ ~IsNaN(a) /\ ~IsNaN(b)
    /\ IF IsInf(a) THEN ~IsInf(b)
       ELSE IF IsInf(b) THEN FALSE
       ELSE a.n * b.d > b.n * a.d
FLt(a, b) == FGt(b, a)

\* uint64(NaN): 2^63 on amd64, 0 on arm64.
ConvNaN == {0, SatU64}
\* uint64(+Inf): 2^63 on amd64, 2^64-1 on arm64.
ConvInf == {SatU64}

\* uint64(math.Floor(num/den + 0.5)) for den > 0, num >= 0.
FloorHalf(num, den, inexact) ==
    LET r == (2 * num + den) \div (2 * den)
        tie == (2 * num + den) % (2 * den) = 0
    IN IF inexact /\ tie THEN {r - 1, r} ELSE {r}

\* ------------------------------------------------------ dimension engine

\* getAspectScaledHeight multiplying by the ratio where the code divides.
getAspectScaledHeightSwapped(aspectRatio, width) ==
    IF IsNaN(aspectRatio) THEN ConvNaN
    ELSE IF IsInf(aspectRatio) THEN (IF width = 0 THEN ConvNaN ELSE ConvInf)
    ELSE FloorHalf(width * aspectRatio.n, aspectRatio.d, Inexact(aspectRatio))

\* uint64(math.Floor((float64(width) / aspectRatio) + 0.5))
getAspectScaledHeight(aspectRatio, width) ==
    IF IsNaN(aspectRatio) THEN ConvNaN
    ELSE IF IsInf(aspectRatio) THEN {0}
    ELSE IF aspectRatio.n = 0 THEN (IF width = 0 THEN ConvNaN ELSE ConvInf)
    ELSE FloorHalf(width * aspectRatio.d, aspectRatio.n, Inexact(aspectRatio))

\* uint64(math.Floor((float64(height) * aspectRatio) + 0.5))
getAspectScaledWidth(aspectRatio, height) ==
    IF IsNaN(aspectRatio) THEN ConvNaN
    ELSE IF IsInf(aspectRatio) THEN (IF height = 0 THEN ConvNaN ELSE ConvInf)
    ELSE FloorHalf(height * aspectRatio.n, aspectRatio.d, Inexact(aspectRatio))

RECURSIVE scaleToRequestedDimensions(_, _, _)
scaleToRequestedDimensions(cfg, currentDimensions, requestedDimensions) ==
    LET imageAspectRatio == AspectRatio(currentDimensions)
        requestedAspectRatio == AspectRatio(requestedDimensions)
    IN IF requestedDimensions.Width > 0 /\ requestedDimensions.Height > 0
       THEN IF ~cfg.MaintainAspectRatio THEN {requestedDimensions}
            ELSE IF FGt(requestedAspectRatio, imageAspectRatio)
            THEN scaleToRequestedDimensions(cfg, currentDimensions,
                                            Dim(0, requestedDimensions.Height))
            ELSE IF FLt(requestedAspectRatio, imageAspectRatio)
            THEN scaleToRequestedDimensions(cfg, currentDimensions,
                                            Dim(requestedDimensions.Width, 0))
            ELSE {requestedDimensions}
       ELSE IF requestedDimensions.Width > 0
       THEN {Dim(requestedDimensions.Width, h) :
                h \in getAspectScaledHeight(imageAspectRatio, requestedDimensions.Width)}
       ELSE IF requestedDimensions.Height > 0
       THEN {Dim(w, requestedDimensions.Height) :
                w \in getAspectScaledWidth(imageAspectRatio, requestedDimensions.Height)}
       ELSE {currentDimensions}

\* clampDimensionsToMaxima without the recursive re-check of the other maximum.
clampOnce(cfg, dimensions) ==
    IF cfg.MaxImageWidth > 0 /\ dimensions.Width > cfg.MaxImageWidth
    THEN {Dim(cfg.MaxImageWidth, h) :
             h \in getAspectScaledHeight(AspectRatio(dimensions), cfg.MaxImageWidth)}
    ELSE IF cfg.MaxImageHeight > 0 /\ dimensions.Height > cfg.MaxImageHeight
    THEN {Dim(w, cfg.MaxImageHeight) :
             w \in getAspectScaledWidth(AspectRatio(dimensions), cfg.MaxImageHeight)}
    ELSE {dimensions}

RECURSIVE clampDimensionsToMaxima(_, _)
clampDimensionsToMaxima(cfg, dimensions) ==
    IF cfg.MaxImageWidth > 0 /\ dimensions.Width > cfg.MaxImageWidth
    THEN UNION {clampDimensionsToMaxima(cfg, Dim(cfg.MaxImageWidth, scaledHeight)) :
                   scaledHeight \in getAspectScaledHeight(AspectRatio(dimensions),
                                                          cfg.MaxImageWidth)}
    ELSE IF cfg.MaxImageHeight > 0 /\ dimensions.Height > cfg.MaxImageHeight
    THEN UNION {clampDimensionsToMaxima(cfg, Dim(scaledWidth, cfg.MaxImageHeight)) :
                   scaledWidth \in getAspectScaledWidth(AspectRatio(dimensions),
                                                        cfg.MaxImageHeight)}
    ELSE {dimensions}

\* The request's size, or the configured default size when it names neither.
requestDimensionsOrDefault(cfg, request) ==
    IF request.Dimensions.Width = 0 /\ request.Dimensions.Height = 0
    THEN Dim(cfg.DefaultImageWidth, cfg.DefaultImageHeight)
    ELSE request.Dimensions

getScaledDimensions(cfg, currentDimensions, request) ==
    UNION {clampDimensionsToMaxima(cfg, dimensions) :
              dimensions \in scaleToRequestedDimensions(
                  cfg, currentDimensions, requestDimensionsOrDefault(cfg, request))}

\* -------------------------------------------------------- crop calculator

\* ImageProcessorCropOption{X, Y}, X and Y in units of 1/AnchorDen; a nil
\* request.Crop is NoCrop.
NoCrop == [set |-> FALSE, X |-> 0, Y |-> 0]
CropAt(x, y) == [set |-> TRUE, X |-> x, Y |-> y]

\* a - b on uint64: wraps to a value of at least 2^63 when b > a.
USub(a, b) == IF a >= b THEN a - b ELSE SatU64

\* int(math.Floor(0.5 + (float64(n) * anchor))), anchor = k / AnchorDen.
\* A product of 2^63 or more is out of int's range: math.MinInt64 on amd64,
\* math.MaxInt64 on arm64.
cropOffset(n, k) ==
    IF n >= SatU64
    THEN (IF k = 0 THEN {0} ELSE IF k >= AnchorDen THEN {-SatU64, SatU64} ELSE {SatU64})
    ELSE FloorHalf(n * k, AnchorDen, ~IsPow2(AnchorDen \div Gcd(k, AnchorDen)))

\* cropOffset taken from the full extent instead of the excess.
cropOffsetOfExtent(currentDimensions, cropWidth, cropHeight, crop) ==
    [left |-> cropOffset(currentDimensions.Width, crop.X),
     top |-> cropOffset(currentDimensions.Height, crop.Y)]

\* The offsets of the crop frame: the excess of the current size over the
\* crop size, shifted by the anchor.
cropOffsets(currentDimensions, cropWidth, cropHeight, crop) ==
    [left |-> cropOffset(USub(currentDimensions.Width, cropWidth), crop.X),
     top |-> cropOffset(USub(currentDimensions.Height, cropHeight), crop.Y)]

\* The geometry cropWand hands to wand.CropImage; wrapped tells that the
\* unsigned subtraction of the taken branch underflowed.
cropGeometry(cfg, currentDimensions, request) ==
    LET requestAspectRatio == AspectRatio(request.Dimensions)
    IN IF FGt(AspectRatio(currentDimensions), requestAspectRatio)
       THEN UNION {
              {[cropWidth |-> cw, cropHeight |-> currentDimensions.Height,
                cropLeft |-> l, cropTop |-> 0,
                wrapped |-> cw > currentDimensions.Width] :
                 l \in cropOffsets(currentDimensions, cw,
                                   currentDimensions.Height, request.Crop).left} :
              cw \in getAspectScaledWidth(requestAspectRatio, currentDimensions.Height)}
       ELSE UNION {
              {[cropWidth |-> currentDimensions.Width, cropHeight |-> ch,
                cropLeft |-> 0, cropTop |-> t,
                wrapped |-> ch > currentDimensions.Height] :
                 t \in cropOffsets(currentDimensions, currentDimensions.Width,
                                   ch, request.Crop).top} :
              ch \in getAspectScaledHeight(requestAspectRatio, currentDimensions.Width)}

\* ------------------------------------------------------------------ state

VARIABLES
    config,             \* ip.Config, the processor's configuration
    request,            \* the ImageProcessorOptions of the call
    currentDimensions,  \* the current size handed to the geometry functions
    dimensions,         \* getScaledDimensions: the size before the clamp
    newDimensions,      \* getScaledDimensions: the size returned
    reclamped,          \* the clamp applied to newDimensions once more
    rect,               \* the geometry cropWand computed
    phase,              \* position of the geometry computations
    image,              \* the *Image handed to ProcessImage
    wand,               \* the size of the image the call's wand holds
    pc,                 \* position of the ProcessImage call
    modified,           \* cropModified, scaleModified, blurModified, grayscaleModified
    stages,             \* the stages entered, each with the wand's size on entry
    calls,              \* the calls made on the wand that change the image
    failed,             \* the stage whose library call reported an error
    result,             \* what ProcessImage returned
    names,              \* p.Pattern.SubexpNames(), the whole match first
    matches,            \* the submatches of r.URL.Path, the whole match first
    form,               \* the form values of the request, by key
    options,            \* what SourceAndProcessorOptionsForRequest returned
    callPc,             \* concurrent calls: the position of each call
    callWand,           \* concurrent calls: the wand NewMagickWand gave each call
    callModified,       \* concurrent calls: the four modified flags of a call under way
    callResult,         \* concurrent calls: what each call returned
    liveWands,          \* the wands created and not yet destroyed
    destroyed           \* concurrent calls: how often each call ran wand.Destroy()

geomVars == <<config, request, currentDimensions, dimensions, newDimensions,
              reclamped, rect, phase>>

pipeVars == <<image, wand, pc, modified, stages, calls, failed, result>>

routeVars == <<names, matches, form, options>>

wandVars == <<callPc, callWand, callModified, callResult, liveWands, destroyed>>

vars == <<geomVars, pipeVars, routeVars, wandVars>>

\* ProcessorConfig
Config(maintain, dw, dh, mw, mh, blurPct, grayDefault, grayDisabled) ==
    [MaintainAspectRatio |-> maintain,
     DefaultImageWidth |-> dw, DefaultImageHeight |-> dh,
     MaxImageWidth |-> mw, MaxImageHeight |-> mh,
     MaxBlurRadiusPercentage |-> blurPct,
     GrayscaleByDefault |-> grayDefault, GrayscaleDisabled |-> grayDisabled]

\* ImageProcessorOptions
Options(d, blur, gray, crop) ==
    [Dimensions |-> d, BlurRadius |-> blur, GrayScale |-> gray, Crop |-> crop]

\* The sizes a wand reports: 0x0 when it holds no image (the blob did not
\* decode), at least 1x1 otherwise.
ImageSizes(max) == {Dim(0, 0)} \cup {Dim(w, h) : w \in 1..max, h \in 1..max}
RequestSizes(max) == {Dim(w, h) : w \in 0..max, h \in 0..max}


\* ------------------------------------------------------------- pipeline

NoModified == [crop |-> FALSE, scale |-> FALSE, blur |-> FALSE, grayscale |-> FALSE]
NoResult == [kind |-> "pending", Bytes |-> "", MimeType |-> ""]
\* return nil
NilImage == [kind |-> "nil", Bytes |-> "", MimeType |-> ""]
NoImage == [Bytes |-> "", Width |-> 0, Height |-> 0, Format |-> ""]

\* The pipeline at rest, for the specifications that only apply the geometry.
PipeIdle ==
    /\ image = NoImage
    /\ wand = Dim(0, 0)
    /\ pc = "idle"
    /\ modified = NoModified
    /\ stages = <<>>
    /\ calls = <<>>
    /\ failed = ""
    /\ result = NoResult

\* The option resolver at rest, for the specifications that do not use it.
RouteIdle ==
    /\ names = <<>>
    /\ matches = <<>>
    /\ form = <<>>
    /\ options = {}

\* The goroutines that are each inside one ProcessImage call.
Calls == 1..MaxCalls
\* The wands the library can have allocated at one time.
Wands == 1..MaxCalls
\* No wand: the value of a call's local before NewMagickWand.
NoWand == 0

\* No concurrent call, for the specifications that follow a single call.
WandIdle ==
    /\ callPc = [c \in Calls |-> "idle"]
    /\ callWand = [c \in Calls |-> NoWand]
    /\ callModified = [c \in Calls |-> NoModified]
    /\ callResult = [c \in Calls |-> NoResult]
    /\ liveWands = {}
    /\ destroyed = [c \in Calls |-> 0]

\* ---------------------------------------------- dimension engine, applied

InitDim ==
    /\ \E m \in BOOLEAN, dw \in 0..MaxDefault, dh \in 0..MaxDefault,
          mw \in 0..MaxDim, mh \in 0..MaxDim :
          config = Config(m, dw, dh, mw, mh, 0, FALSE, FALSE)
    /\ \E d \in RequestSizes(MaxDim) : request = Options(d, 0, FALSE, NoCrop)
    /\ currentDimensions \in ImageSizes(MaxDim)
    /\ dimensions = {}
    /\ newDimensions = {}
    /\ reclamped = {}
    /\ rect = {}
    /\ phase = "input"
    /\ PipeIdle
    /\ RouteIdle
    /\ WandIdle

\* getScaledDimensions(currentDimensions, request)
ResolveDimensions ==
    /\ phase = "input"
    /\ \E d \in scaleToRequestedDimensions(config, currentDimensions,
                                           requestDimensionsOrDefault(config, request)) :
          /\ dimensions' = {d}
          /\ \E c \in clampDimensionsToMaxima(config, d) : newDimensions' = {c}
    /\ phase' = "resolved"
    /\ UNCHANGED <<config, request, currentDimensions, reclamped, rect, pipeVars, routeVars, wandVars>>

\* clampDimensionsToMaxima applied to a size getScaledDimensions returned
ClampAgain ==
    /\ phase = "resolved"
    /\ \E d \in newDimensions :
          \E c \in clampDimensionsToMaxima(config, d) : reclamped' = {c}
    /\ phase' = "reclamped"
    /\ UNCHANGED <<config, request, currentDimensions, dimensions, newDimensions, rect,
                   pipeVars, routeVars, wandVars>>

NextDim == ResolveDimensions \/ ClampAgain

SpecDim == InitDim /\ [][NextDim]_vars

\* ----------------------------------------------- crop calculator, applied

InitCrop ==
    /\ config = Config(TRUE, 0, 0, 0, 0, 0, FALSE, FALSE)
    /\ \E d \in RequestSizes(MaxDim), x \in 0..AnchorDen, y \in 0..AnchorDen :
          request = Options(d, 0, FALSE, CropAt(x, y))
    /\ currentDimensions \in ImageSizes(MaxDim)
    /\ dimensions = {}
    /\ newDimensions = {}
    /\ reclamped = {}
    /\ rect = {}
    /\ phase = "input"
    /\ PipeIdle
    /\ RouteIdle
    /\ WandIdle

\* The geometry of cropWand(wand, request) for a request with a crop anchor
ComputeCrop ==
    /\ phase = "input"
    /\ request.Crop.set
    /\ \E g \in cropGeometry(config, currentDimensions, request) : rect' = {g}
    /\ phase' = "cropped"
    /\ UNCHANGED <<config, request, currentDimensions, dimensions, newDimensions,
                   reclamped, pipeVars, routeVars, wandVars>>

NextCrop == ComputeCrop

SpecCrop == InitCrop /\ [][NextCrop]_vars

\* ------------------------------------------------- the external library

Min(a, b) == IF a <= b THEN a ELSE b
Max(a, b) == IF a >= b THEN a ELSE b

\* wand.CropImage(width, height, x, y) on a wand holding an image of size cur:
\* the sizes it can leave, none when it reports an error for certain.  A wand
\* without an image fails every call; a zero width or height stands for the
\* full extent; the frame is cut to the image and must meet it.
LibCropSizes(cur, g) ==
    LET w == IF g.cropWidth = 0 THEN cur.Width ELSE g.cropWidth
        h == IF g.cropHeight = 0 THEN cur.Height ELSE g.cropHeight
        x0 == Max(g.cropLeft, 0)
        x1 == Min(g.cropLeft + w, cur.Width)
        y0 == Max(g.cropTop, 0)
        y1 == Min(g.cropTop + h, cur.Height)
    IN IF cur.Width = 0 \/ x1 <= x0 \/ y1 <= y0 THEN {} ELSE {Dim(x1 - x0, y1 - y0)}

\* wand.ResizeImage(width, height, ...): an image is at least 1x1 and no
\* image has a side of 2^63.
LibResizeSizes(cur, d) ==
    IF cur.Width = 0 \/ d.Width = 0 \/ d.Height = 0
       \/ d.Width >= SatU64 \/ d.Height >= SatU64
    THEN {} ELSE {d}

\* The library calls of scaleWand after the sizes differ, in order.
scaleWandCalls(format, d) ==
    <<<<"ResizeImage", d.Width, d.Height>>, <<"SetImageInterpolateMethod">>,
      <<"StripImage">>>> \o
    (IF format = "JPEG"
     THEN <<<<"SetImageInterlaceScheme">>, <<"SetImageCompression">>,
            <<"SetImageCompressionQuality">>>>
     ELSE <<>>)

\* fmt.Sprintf("image/%s", strings.ToLower(wand.GetImageFormat()))
MimeTypeOf(format) ==
    CASE format = "JPEG" -> "image/jpeg"
      [] format = "PNG" -> "image/png"
      [] OTHER -> "image/"

\* --------------------------------------------------------- ProcessImage

\* ProcessImage going on to the next stage whatever the stage reported.
stageReturnBestEffort(err, next) == [pc |-> next, result |-> NoResult]

\* After a stage: "if err != nil { ...; return nil }", else the next stage.
stageReturn(err, next) ==
    IF err THEN [pc |-> "done", result |-> NilImage]
    ELSE [pc |-> next, result |-> NoResult]

\* scaleWand resizing whenever a size was requested.
scaleNeededIfRequested(newDims, currentDims, req) ==
    newDims # currentDims \/ req.Dimensions # Dim(0, 0)

\* scaleWand: "if newDimensions == currentDimensions { return nil, false }"
scaleNeeded(newDims, currentDims, req) == newDims # currentDims

\* blurRadius computed from the width of the source image.
blurRadiusOfSource(cfg, wnd, img, req) ==
    img.Width * req.BlurRadius * cfg.MaxBlurRadiusPercentage

\* float64(wand.GetImageWidth()) * request.BlurRadius * MaxBlurRadiusPercentage
blurRadius(cfg, wnd, img, req) ==
    wnd.Width * req.BlurRadius * cfg.MaxBlurRadiusPercentage

\* grayscaleWand's condition
grayscaleApplies(cfg, req) ==
    ~cfg.GrayscaleDisabled /\ (cfg.GrayscaleByDefault \/ req.GrayScale)

\* processedImage.Bytes: the input's bytes unless a stage modified the image.
processedBytes(img, m) ==
    IF ~m.crop /\ ~m.scale /\ ~m.blur /\ ~m.grayscale THEN img.Bytes ELSE "encoded"

\* The configurations and requests the pipeline is run on: no maxima or both
\* at one pixel, no default size or the widest one, blurring disabled or at
\* the full fraction, and a crop anchored at either end of the excess.
PipeMaxima == {Dim(0, 0), Dim(1, 1)}
PipeDefaults == {Dim(0, 0), Dim(MaxPipeDim, 1)}
PipeBlurPercentages == {0, 1}
PipeCrops == {NoCrop, CropAt(0, 0), CropAt(AnchorDen, AnchorDen)}

Images ==
    {[Bytes |-> "input", Width |-> 0, Height |-> 0, Format |-> ""]} \cup
    {[Bytes |-> "input", Width |-> w, Height |-> h, Format |-> f] :
        w \in 1..MaxPipeDim, h \in 1..MaxPipeDim, f \in {"JPEG", "PNG"}}

Init ==
    /\ \E m \in BOOLEAN, def \in PipeDefaults, max \in PipeMaxima,
          bp \in PipeBlurPercentages, gd \in BOOLEAN, gx \in BOOLEAN :
          config = Config(m, def.Width, def.Height, max.Width, max.Height, bp, gd, gx)
    /\ \E d \in RequestSizes(MaxPipeDim), b \in 0..MaxBlur, g \in BOOLEAN,
          c \in PipeCrops :
          request = Options(d, b, g, c)
    /\ image \in Images
    /\ wand = Dim(0, 0)
    /\ pc = "start"
    /\ modified = NoModified
    /\ stages = <<>>
    /\ calls = <<>>
    /\ failed = ""
    /\ result = NoResult
    /\ currentDimensions = Dim(0, 0)
    /\ dimensions = {}
    /\ newDimensions = {}
    /\ reclamped = {}
    /\ rect = {}
    /\ phase = "idle"
    /\ RouteIdle
    /\ WandIdle

\* wand := imagick.NewMagickWand(); wand.ReadImageBlob(image.Bytes)
Begin ==
    /\ pc = "start"
    /\ wand' = Dim(image.Width, image.Height)
    /\ pc' = "crop"
    /\ UNCHANGED <<geomVars, routeVars, wandVars, image, modified, stages, calls, failed, result>>

\* err, cropModified := ip.cropWand(wand, request), and the return on err
CropStage ==
    /\ pc = "crop"
    /\ stages' = Append(stages, [stage |-> "crop", size |-> wand])
    /\ IF ~request.Crop.set
       THEN /\ pc' = "scale"
            /\ UNCHANGED <<wand, modified, calls, failed, result>>
       ELSE \E g \in cropGeometry(config, wand, request) :
            \E err \in BOOLEAN :
               /\ err \/ LibCropSizes(wand, g) # {}
               /\ calls' = Append(calls, <<"CropImage", g.cropWidth, g.cropHeight,
                                           g.cropLeft, g.cropTop>>)
               /\ modified' = [modified EXCEPT !.crop = TRUE]
               /\ failed' = IF err THEN "crop" ELSE failed
               /\ wand' = IF err THEN wand ELSE CHOOSE d \in LibCropSizes(wand, g) : TRUE
               /\ pc' = stageReturn(err, "scale").pc
               /\ result' = stageReturn(err, "scale").result
    /\ UNCHANGED <<geomVars, routeVars, wandVars, image>>

\* err, scaleModified := ip.scaleWand(wand, request), and the return on err.
\* failAt is the library call of scaleWand that reports an error, 0 for none.
ScaleStage ==
    /\ pc = "scale"
    /\ stages' = Append(stages, [stage |-> "scale", size |-> wand])
    /\ \E d \in getScaledDimensions(config, wand, request) :
          IF ~scaleNeeded(d, wand, request)
          THEN /\ pc' = "blur"
               /\ UNCHANGED <<wand, modified, calls, failed, result>>
          ELSE LET all == scaleWandCalls(image.Format, d)
               IN \E failAt \in 0..Len(all) :
                     /\ (failAt = 1) \/ LibResizeSizes(wand, d) # {}
                     /\ calls' = calls \o
                           (IF failAt = 0 THEN all ELSE SubSeq(all, 1, failAt))
                     /\ modified' = [modified EXCEPT !.scale = TRUE]
                     /\ failed' = IF failAt # 0 THEN "scale" ELSE failed
                     /\ wand' = IF failAt = 1 THEN wand ELSE d
                     /\ pc' = stageReturn(failAt # 0, "blur").pc
                     /\ result' = stageReturn(failAt # 0, "blur").result
    /\ UNCHANGED <<geomVars, routeVars, wandVars, image>>

\* err, blurModified := ip.blurWand(wand, request), and the return on err
BlurStage ==
    /\ pc = "blur"
    /\ stages' = Append(stages, [stage |-> "blur", size |-> wand])
    /\ IF request.BlurRadius # 0
       THEN \E err \in BOOLEAN :
               /\ err \/ wand.Width # 0
               /\ calls' = Append(calls, <<"GaussianBlurImage",
                                           blurRadius(config, wand, image, request)>>)
               /\ modified' = [modified EXCEPT !.blur = TRUE]
               /\ failed' = IF err THEN "blur" ELSE failed
               /\ pc' = stageReturn(err, "grayscale").pc
               /\ result' = stageReturn(err, "grayscale").result
       ELSE /\ pc' = "grayscale"
            /\ UNCHANGED <<modified, calls, failed, result>>
    /\ UNCHANGED <<geomVars, routeVars, wandVars, image, wand>>

\* err, grayscaleModified := ip.grayscaleWand(wand, request), and the return on err
GrayscaleStage ==
    /\ pc = "grayscale"
    /\ stages' = Append(stages, [stage |-> "grayscale", size |-> wand])
    /\ IF grayscaleApplies(config, request)
       THEN \E err \in BOOLEAN :
               /\ err \/ wand.Width # 0
               /\ calls' = Append(calls, <<"TransformImageColorspace">>)
               /\ modified' = [modified EXCEPT !.grayscale = TRUE]
               /\ failed' = IF err THEN "grayscale" ELSE failed
               /\ pc' = stageReturn(err, "finish").pc
               /\ result' = stageReturn(err, "finish").result
       ELSE /\ pc' = "finish"
            /\ UNCHANGED <<modified, calls, failed, result>>
    /\ UNCHANGED <<geomVars, routeVars, wandVars, image, wand>>

\* The end of ProcessImage: the bytes, the mime type, return &processedImage
Finish ==
    /\ pc = "finish"
    /\ result' = [kind |-> "image", Bytes |-> processedBytes(image, modified),
                  MimeType |-> MimeTypeOf(image.Format)]
    /\ pc' = "done"
    /\ UNCHANGED <<geomVars, routeVars, wandVars, image, wand, modified, stages, calls, failed>>

Next == Begin \/ CropStage \/ ScaleStage \/ BlurStage \/ GrayscaleStage \/ Finish

Spec == Init /\ [][Next]_vars

\* ------------------------------------------- ProcessImage, concurrent calls

\* The server runs each request in a goroutine of its own, so several
\* ProcessImage calls are in progress at once and their steps interleave.
\* Each call is followed through the control flow of ProcessImage; what a
\* stage computes is left to the single-call specification above, and a
\* stage here returns any of the (err, modified) pairs its function can.

\* Destroy run only by the return at the end of ProcessImage.
deferredDestroyAtEnd(ret) ==
    IF ret.pc = "done" /\ ret.result.kind = "image" THEN 1 ELSE 0

\* defer wand.Destroy(): how often Destroy runs in a step of ProcessImage
\* that leaves it at ret, once if the step returns and not at all otherwise.
deferredDestroy(ret) == IF ret.pc = "done" THEN 1 ELSE 0

\* What cropWand, scaleWand, blurWand and grayscaleWand return: (nil, false)
\* when the stage does not apply, (nil, true) or (err, true) when it does.
StageOutcomes ==
    {[err |-> FALSE, modified |-> FALSE],
     [err |-> FALSE, modified |-> TRUE],
     [err |-> TRUE, modified |-> TRUE]}

\* The *Image each concurrent call is handed.
CallImage == [Bytes |-> "input", Width |-> 1, Height |-> 1, Format |-> "PNG"]

InitWand ==
    /\ callPc = [c \in Calls |-> "start"]
    /\ callWand = [c \in Calls |-> NoWand]
    /\ callModified = [c \in Calls |-> NoModified]
    /\ callResult = [c \in Calls |-> NoResult]
    /\ liveWands = {}
    /\ destroyed = [c \in Calls |-> 0]
    /\ config = Config(FALSE, 0, 0, 0, 0, 0, FALSE, FALSE)
    /\ request = Options(Dim(0, 0), 0, FALSE, NoCrop)
    /\ currentDimensions = Dim(0, 0)
    /\ dimensions = {}
    /\ newDimensions = {}
    /\ reclamped = {}
    /\ rect = {}
    /\ phase = "idle"
    /\ PipeIdle
    /\ RouteIdle

\* wand := imagick.NewMagickWand(); defer wand.Destroy(): the library hands
\* out a wand that is not in use; one that was destroyed may come again.
NewMagickWand(c) ==
    /\ callPc[c] = "start"
    /\ \E w \in Wands \ liveWands :
          /\ callWand' = [callWand EXCEPT ![c] = w]
          /\ liveWands' = liveWands \cup {w}
    /\ callPc' = [callPc EXCEPT ![c] = "crop"]
    /\ UNCHANGED <<geomVars, pipeVars, routeVars, callModified, callResult, destroyed>>

\* A step of call c that leaves ProcessImage at ret with the flags m: the
\* deferred Destroy runs with the return, and the flags, locals of the
\* call, are gone with it.
CallStep(c, ret, m) ==
    /\ callPc' = [callPc EXCEPT ![c] = ret.pc]
    /\ callModified' = [callModified EXCEPT
                           ![c] = IF ret.pc = "done" THEN NoModified ELSE m]
    /\ callResult' = [callResult EXCEPT ![c] = ret.result]
    /\ destroyed' = [destroyed EXCEPT ![c] = @ + deferredDestroy(ret)]
    /\ liveWands' = IF deferredDestroy(ret) > 0 THEN liveWands \ {callWand[c]}
                    ELSE liveWands
    /\ UNCHANGED <<geomVars, pipeVars, routeVars, callWand>>

\* err, xModified := ip.xWand(wand, request); if err != nil { return nil }
StageCall(c, stage, next) ==
    /\ callPc[c] = stage
    /\ \E o \in StageOutcomes :
          CallStep(c, stageReturn(o.err, next),
                   [callModified[c] EXCEPT ![stage] = o.modified])

CropCall(c) == StageCall(c, "crop", "scale")
ScaleCall(c) == StageCall(c, "scale", "blur")
BlurCall(c) == StageCall(c, "blur", "grayscale")
GrayscaleCall(c) == StageCall(c, "grayscale", "finish")

\* The end of ProcessImage: the bytes, the mime type, return &processedImage
ReturnImage(c) ==
    /\ callPc[c] = "finish"
    /\ CallStep(c, [pc |-> "done",
                    result |-> [kind |-> "image",
                                Bytes |-> processedBytes(CallImage, callModified[c]),
                                MimeType |-> MimeTypeOf(CallImage.Format)]],
                callModified[c])

NextWand ==
    \E c \in Calls :
        \/ NewMagickWand(c)
        \/ CropCall(c)
        \/ ScaleCall(c)
        \/ BlurCall(c)
        \/ GrayscaleCall(c)
        \/ ReturnImage(c)

SpecWand == InitWand /\ [][NextWand]_vars

\* ------------------------------------------------------ option resolver

\* A string is the sequence of its characters; "" is <<>>.
Digits == <<"0", "1", "2", "3", "4", "5", "6", "7", "8", "9">>
IsDigit(c) == \E i \in 1..10 : Digits[i] = c
DigitValue(c) == (CHOOSE i \in 1..10 : Digits[i] = c) - 1

RECURSIVE DecimalValue(_)
DecimalValue(str) ==
    IF str = <<>> THEN 0
    ELSE 10 * DecimalValue(SubSeq(str, 1, Len(str) - 1)) + DigitValue(str[Len(str)])

IsDecimal(str) == str # <<>> /\ \A i \in 1..Len(str) : IsDigit(str[i])

\* width, _ := strconv.ParseUint(s, 10, 32): the value of a string of decimal
\* digits, 0 with the error dropped for any other string.  (The strings here
\* are too short to leave the 32 bits.)
ParseUint(str) == IF IsDecimal(str) THEN DecimalValue(str) ELSE 0

\* blurRadius, _ := strconv.ParseFloat(s, 64), on strings without sign,
\* point or exponent: the value of the digits, 0 for any other string.
ParseFloat(str) == IF IsDecimal(str) THEN DecimalValue(str) ELSE 0

\* grayScale, _ := strconv.ParseBool(s): true for 1, t, T, TRUE, true, True;
\* false for every other string (with or without an error).
ParseBool(str) ==
    str \in {<<"1">>, <<"t">>, <<"T">>, <<"T", "R", "U", "E">>,
             <<"t", "r", "u", "e">>, <<"T", "r", "u", "e">>}

\* A Go map read at a key it may not hold: the value, or "".
MapGet(m, key) == IF key \in DOMAIN m THEN m[key] ELSE <<>>

\* The loop of NamedSubexpMap from index i on, m being the map so far.
RECURSIVE namedSubexpLoop(_, _, _, _)
namedSubexpLoop(subexpNames, submatches, i, m) ==
    IF i > Len(subexpNames) THEN m
    ELSE IF subexpNames[i] = ""
    THEN namedSubexpLoop(subexpNames, submatches, i + 1, m)
    ELSE namedSubexpLoop(subexpNames, submatches, i + 1,
            [k \in DOMAIN m \cup {subexpNames[i]} |->
                IF k = subexpNames[i] THEN submatches[i] ELSE m[k]])

NamedSubexpMap(subexpNames, submatches) ==
    namedSubexpLoop(subexpNames, submatches, 1, [k \in {} |-> <<>>])

\* r.FormValue(key)
FormValue(formValues, key) == MapGet(formValues, key)

\* pathOrFormValue with the form value taking precedence.
formOrPathValue(pathArgs, formValues, key) ==
    IF key \in DOMAIN formValues THEN formValues[key] ELSE MapGet(pathArgs, key)

\* The closure pathOrFormValue of SourceAndProcessorOptionsForRequest.
pathOrFormValue(pathArgs, formValues, key) ==
    IF key \in DOMAIN pathArgs THEN pathArgs[key] ELSE FormValue(formValues, key)

SourceAndProcessorOptionsForRequest(subexpNames, submatches, formValues) ==
    LET pathArgs == NamedSubexpMap(subexpNames, submatches)
        width == ParseUint(pathOrFormValue(pathArgs, formValues, "w"))
        height == ParseUint(pathOrFormValue(pathArgs, formValues, "h"))
        blur == ParseFloat(pathOrFormValue(pathArgs, formValues, "blur"))
        grayScale == ParseBool(pathOrFormValue(pathArgs, formValues, "grayscale"))
    IN [source |-> [Path |-> MapGet(pathArgs, "image_path")],
        processor |-> Options(Dim(width, height), blur, grayScale, NoCrop)]

\* The names a capture group of a route pattern can have; "" is no name.
GroupNames == {"", "image_path", "w", "h", "blur", "grayscale"}
FieldKeys == {"w", "h", "blur", "grayscale"}
\* What a group captures: nothing, "100", "t".
PathValues == {<<>>, <<"1", "0", "0">>, <<"t">>}
\* What a form value is: "50", "1".
FormValues == {<<"5", "0">>, <<"1">>}

\* The patterns of at most MaxGroups groups, each with what it captured of a
\* path it matches; index 1 is the whole match, which has no name.
InitRoute ==
    /\ \E n \in 0..MaxGroups :
          \E gn \in [1..n -> GroupNames], gv \in [1..n -> PathValues] :
             /\ names = <<"">> \o gn
             /\ matches = <<<<"/">>>> \o gv
    /\ \E keys \in SUBSET FieldKeys : form \in [keys -> FormValues]
    /\ options = {}
    /\ phase = "route"
    /\ config = Config(FALSE, 0, 0, 0, 0, 0, FALSE, FALSE)
    /\ request = Options(Dim(0, 0), 0, FALSE, NoCrop)
    /\ currentDimensions = Dim(0, 0)
    /\ dimensions = {}
    /\ newDimensions = {}
    /\ reclamped = {}
    /\ rect = {}
    /\ PipeIdle
    /\ WandIdle

\* p.SourceAndProcessorOptionsForRequest(r)
ResolveOptions ==
    /\ phase = "route"
    /\ options' = {SourceAndProcessorOptionsForRequest(names, matches, form)}
    /\ phase' = "routed"
    /\ UNCHANGED <<config, request, currentDimensions, dimensions, newDimensions,
                   reclamped, rect, pipeVars, wandVars, names, matches, form>>

NextRoute == ResolveOptions

SpecRoute == InitRoute /\ [][NextRoute]_vars

\* --------------------------------------------- claims: dimension engine

Abs(x) == IF x < 0 THEN -x ELSE x

\* C5: the size getScaledDimensions returns satisfies both configured maxima:
\* its width is at most MaxImageWidth when that is nonzero and its height at
\* most MaxImageHeight when that is nonzero.
C5_WithinMaxima ==
    \A d \in newDimensions :
        /\ config.MaxImageWidth > 0 => d.Width <= config.MaxImageWidth
        /\ config.MaxImageHeight > 0 => d.Height <= config.MaxImageHeight

\* C5, the spec's example at one five-hundredth of its scale: maximum width 2,
\* aspect ratio maintained, source 4x2, request w=3 resolves to 3x2 (3x1.5
\* rounded) and is clamped to 2x1.
C5_Witness ==
    /\ phase = "resolved"
    /\ config.MaintainAspectRatio /\ config.MaxImageWidth = 2
    /\ currentDimensions = Dim(4, 2) /\ request.Dimensions = Dim(3, 0)
    /\ dimensions = {Dim(3, 2)}
    /\ newDimensions = {Dim(2, 1)}

\* C6: the clamp applied again, with the same maxima, to a size it returned
\* returns that size.
C6_ClampIdempotent ==
    phase = "reclamped" => reclamped = newDimensions

\* C6: a clamp that changed the size was applied again.
C6_Witness ==
    /\ phase = "reclamped"
    /\ newDimensions # dimensions
    /\ \E d \in dimensions : d.Width > config.MaxImageWidth /\ config.MaxImageWidth > 0
    /\ \E d \in dimensions : d.Height > config.MaxImageHeight /\ config.MaxImageHeight > 0

\* The case of C7: both dimensions of the current size and of the size handed
\* to scaleToRequestedDimensions are nonzero and the ratio is maintained.
C7_Case ==
    /\ phase # "input"
    /\ config.MaintainAspectRatio
    /\ currentDimensions.Width > 0 /\ currentDimensions.Height > 0
    /\ requestDimensionsOrDefault(config, request).Width > 0
    /\ requestDimensionsOrDefault(config, request).Height > 0

\* One dimension of d is the requested one and the other is less than one
\* pixel from the value giving exactly the current aspect ratio.
C7_NearAspect(d) ==
    LET req == requestDimensionsOrDefault(config, request)
        cur == currentDimensions
    IN \/ /\ d.Width = req.Width
          /\ Abs(d.Height * cur.Width - d.Width * cur.Height) < cur.Width
       \/ /\ d.Height = req.Height
          /\ Abs(d.Width * cur.Height - d.Height * cur.Width) < cur.Height

\* C7 as amended: with the ratio maintained and all four dimensions nonzero,
\* one dimension of the resolved size is the requested one and the other is
\* less than one pixel from the value giving exactly the current ratio (it is
\* zero when that value is below one half).
C7_AspectWithinOnePixel ==
    C7_Case => \A d \in dimensions : C7_NearAspect(d)

\* C7 as stated: the above, and the resolved size is never zero in a dimension.
C7_AsStated ==
    C7_Case => \A d \in dimensions :
        C7_NearAspect(d) /\ d.Width > 0 /\ d.Height > 0

\* C7: a size was resolved whose derived dimension was rounded from a
\* fraction: 4x3 asked for 3x3 gives 3x2 (2.25 rounded).
C7_Witness ==
    /\ C7_Case
    /\ currentDimensions = Dim(4, 3) /\ request.Dimensions = Dim(3, 3)
    /\ dimensions = {Dim(3, 2)}

\* ---------------------------------------------- claims: crop calculator

\* C8: for a target size with both dimensions nonzero the crop rectangle stays
\* inside the source image and the unsigned subtraction does not underflow.
C8_CropInsideSource ==
    (request.Dimensions.Width > 0 /\ request.Dimensions.Height > 0) =>
        \A g \in rect :
            /\ ~g.wrapped
            /\ g.cropLeft >= 0 /\ g.cropTop >= 0
            /\ g.cropLeft + g.cropWidth <= currentDimensions.Width
            /\ g.cropTop + g.cropHeight <= currentDimensions.Height

\* C8: a crop that cut the width and was shifted to the far edge: 4x2 to the
\* ratio 1:1 at x = 1 is the 2x2 frame at left 2.
C8_Witness ==
    /\ phase = "cropped"
    /\ currentDimensions = Dim(4, 2) /\ request.Dimensions = Dim(1, 1)
    /\ request.Crop.X = AnchorDen
    /\ rect = {[cropWidth |-> 2, cropHeight |-> 2, cropLeft |-> 2, cropTop |-> 0,
                wrapped |-> FALSE]}

\* ------------------------------------------------------ claims: pipeline

ImageSize == Dim(image.Width, image.Height)
CallsNamed(name) == {i \in 1..Len(calls) : calls[i][1] = name}
StageOrder == <<"crop", "scale", "blur", "grayscale">>

\* No stage applies: no crop option, the resolved target size is the current
\* size, the request's blur is zero, and grayscale is neither requested nor
\* forced by default, or else is disabled.
C1_NoStageApplies ==
    /\ ~request.Crop.set
    /\ getScaledDimensions(config, ImageSize, request) = {ImageSize}
    /\ request.BlurRadius = 0
    /\ (~request.GrayScale /\ ~config.GrayscaleByDefault) \/ config.GrayscaleDisabled

\* C1: a ProcessImage run in which no stage applies returns an image whose
\* bytes are the input's bytes; the re-encoded blob is returned only when a
\* stage reported that it modified the image.
C1_NoStageReturnsInput ==
    /\ (pc = "done" /\ C1_NoStageApplies) =>
          (result.kind = "image" /\ result.Bytes = image.Bytes)
    /\ (result.kind = "image" /\ result.Bytes # image.Bytes) =>
          (modified.crop \/ modified.scale \/ modified.blur \/ modified.grayscale)

\* C1: a run on a decoded image that asked for exactly the size the image
\* has, blur 0 and no grayscale, ended with the input's bytes.
C1_Witness ==
    /\ pc = "done" /\ C1_NoStageApplies
    /\ image.Width > 0 /\ request.Dimensions = ImageSize
    /\ result.kind = "image" /\ result.Bytes = "input"
    /\ Len(stages) = 4 /\ calls = <<>>

\* C2: once a stage has reported an error of the library, ProcessImage has
\* returned nil and the failing stage is the last one that was entered.
C2_ErrorAborts ==
    failed # "" =>
        /\ pc = "done"
        /\ result = NilImage
        /\ stages[Len(stages)].stage = failed

\* C2: the blur failed on an image the scale stage had already resized, and
\* nothing was returned.
C2_Witness ==
    /\ failed = "blur"
    /\ modified.scale /\ wand # ImageSize
    /\ pc = "done" /\ result = NilImage

\* The size the crop stage left: the library's cut of the frame it was
\* handed, or the size on entry when no crop was asked for.
C3_SizeAfterCrop ==
    IF CallsNamed("CropImage") = {} THEN {stages[1].size}
    ELSE {d \in LibCropSizes(stages[1].size,
              LET c == calls[CHOOSE i \in CallsNamed("CropImage") : TRUE]
              IN [cropWidth |-> c[2], cropHeight |-> c[3],
                  cropLeft |-> c[4], cropTop |-> c[5]]) : TRUE}

\* The width the scale stage left: that of the resize, or that on entry.
C3_WidthAfterScale ==
    IF CallsNamed("ResizeImage") = {} THEN stages[2].size.Width
    ELSE calls[CHOOSE i \in CallsNamed("ResizeImage") : TRUE][2]

\* C3: the stages are entered in the order crop, scale, blur, grayscale; the
\* scale stage resolves its target against the size the crop left, and the
\* blur radius is computed from the width the crop and the scale left.
C3_StagesInOrder ==
    /\ Len(stages) <= 4
    /\ \A i \in 1..Len(stages) : stages[i].stage = StageOrder[i]
    /\ Len(stages) >= 1 => stages[1].size = ImageSize
    /\ Len(stages) >= 2 =>
          /\ stages[2].size \in C3_SizeAfterCrop
          /\ \A i \in CallsNamed("ResizeImage") :
                Dim(calls[i][2], calls[i][3]) \in
                    getScaledDimensions(config, stages[2].size, request)
    /\ Len(stages) >= 3 =>
          /\ stages[3].size.Width = C3_WidthAfterScale
          /\ \A i \in CallsNamed("GaussianBlurImage") :
                calls[i][2] = C3_WidthAfterScale * request.BlurRadius
                                 * config.MaxBlurRadiusPercentage

\* C3: the crop changed the size, the scale then changed the width, and the
\* image was blurred with a nonzero radius at a width that is not the source's.
C3_Witness ==
    /\ CallsNamed("CropImage") # {} /\ CallsNamed("ResizeImage") # {}
    /\ \E i \in CallsNamed("GaussianBlurImage") : calls[i][2] > 0
    /\ stages[2].size # ImageSize
    /\ stages[3].size.Width # stages[2].size.Width
    /\ stages[3].size.Width # image.Width
    /\ result.kind = "image"

\* C9 as stated: a scale stage entered with an image of height zero resolves
\* no target and ends the call there with no image.
C9_ZeroHeightAborts ==
    (Len(stages) >= 2 /\ stages[2].size.Height = 0) =>
        /\ Len(stages) = 2
        /\ pc = "done"
        /\ result = NilImage

\* C10 as stated: the frame handed to CropImage is the one computed for the
\* request's target size, the configured default size standing in for a
\* request that names neither dimension.
C10_CropUsesDefaults ==
    \A i \in CallsNamed("CropImage") :
        \E g \in cropGeometry(config, stages[1].size,
                    [request EXCEPT !.Dimensions =
                        requestDimensionsOrDefault(config, request)]) :
            calls[i] = <<"CropImage", g.cropWidth, g.cropHeight, g.cropLeft, g.cropTop>>

\* ----------------------------------------------- claims: option resolver

\* The groups of the pattern that have the field's name.
C4_Groups(key) == {i \in 1..Len(names) : names[i] = key}

\* The value a field is taken from, by the claim: what a group of that name
\* captured if the pattern has one, the form value (or "") only otherwise.
C4_Sources(key) ==
    IF C4_Groups(key) # {} THEN {matches[i] : i \in C4_Groups(key)}
    ELSE {IF key \in DOMAIN form THEN form[key] ELSE <<>>}

\* C4: each of w, h, blur and grayscale is parsed from what the pattern's
\* group of that name captured, whatever the query holds under that name, and
\* from the query parameter only when the pattern has no group of that name.
C4_PathBeforeQuery ==
    \A o \in options :
        /\ o.processor.Dimensions.Width \in {ParseUint(v) : v \in C4_Sources("w")}
        /\ o.processor.Dimensions.Height \in {ParseUint(v) : v \in C4_Sources("h")}
        /\ o.processor.BlurRadius \in {ParseFloat(v) : v \in C4_Sources("blur")}
        /\ o.processor.GrayScale \in {ParseBool(v) : v \in C4_Sources("grayscale")}

\* C4, the spec's example: the path captured w as 100, the query says w=50,
\* and the target width is 100; h has no group and comes from the query.
C4_Witness ==
    /\ phase = "routed"
    /\ \E i \in C4_Groups("w") : matches[i] = <<"1", "0", "0">>
    /\ "w" \in DOMAIN form /\ form["w"] = <<"5", "0">>
    /\ C4_Groups("h") = {} /\ "h" \in DOMAIN form /\ form["h"] = <<"5", "0">>
    /\ \E o \in options : o.processor.Dimensions = Dim(100, 50)

\* C11 as stated: under a MaxBlurRadiusPercentage of 0 no request reaches
\* GaussianBlurImage, the blur stage never reports a modification, and a
\* call that no other stage modified returns the input's bytes.
C11_ZeroPercentageDisablesBlur ==
    config.MaxBlurRadiusPercentage = 0 =>
        /\ CallsNamed("GaussianBlurImage") = {}
        /\ ~modified.blur
        /\ (result.kind = "image" /\ ~modified.crop /\ ~modified.scale
                /\ ~modified.grayscale) => result.Bytes = image.Bytes

\* The calls that hold a wand: past NewMagickWand and not yet returned.
C12_Running == {c \in Calls : callPc[c] \in {"crop", "scale", "blur", "grayscale", "finish"}}

\* C12: every ProcessImage call that is under way holds a wand of its own
\* that is live and that it has not destroyed; a call that has returned,
\* with an image or with nil, has run Destroy exactly once; the live wands
\* are exactly those of the calls under way, so none is left once all the
\* calls have returned.
C12_WandReleasedOnce ==
    /\ \A c \in Calls :
          /\ callPc[c] = "start" => (callWand[c] = NoWand /\ destroyed[c] = 0)
          /\ c \in C12_Running => (callWand[c] \in liveWands /\ destroyed[c] = 0)
          /\ callPc[c] = "done" => (destroyed[c] = 1 /\ callResult[c] # NoResult)
    /\ \A c, d \in C12_Running : c # d => callWand[c] # callWand[d]
    /\ liveWands = {callWand[c] : c \in C12_Running}
    /\ (\A c \in Calls : callPc[c] = "done") => liveWands = {}

\* C12: two calls that ran on different wands have both returned, one with
\* nil after a stage failed and one with the input's bytes, no stage having
\* modified the image; each ran Destroy once and no wand is live.
C12_Witness ==
    /\ \A c \in Calls : callPc[c] = "done" /\ destroyed[c] = 1
    /\ liveWands = {}
    /\ callWand[1] # callWand[2]
    /\ callResult[1] = NilImage
    /\ callResult[2].kind = "image" /\ callResult[2].Bytes = CallImage.Bytes

====
